---- MODULE Spec2Model ----
\* Flowchart construction engine of backend/services/flowchart_builder.py:
\* BaseFlowchartBuilder, PythonFlowchartBuilder (AST walk), RegexFlowchartBuilder
\* (line scan) and the dispatcher build_flowchart.
\*
\* Python strings are modelled as sequences of one-character strings, so that
\* formatting, splitting, stripping, slicing and matching are computed, not assumed.
EXTENDS Integers, Sequences, FiniteSets, TLC

\* ---------------------------------------------------------------- bounds

\* Largest number of statements (at any nesting depth) of a parsed input.
MaxStmts == 3
\* Largest number of lines of an input that does not parse.
MaxLines == 2
\* Largest numbers of _add_node and _add_edge calls made on a bare builder.
MaxNodes == 10
MaxEdges == 2
\* Largest number of those _add_node calls that raise.
MaxRaises == 2

\* ---------------------------------------------------------------- strings

\* Python's None (an absent edge label): a value that is no string, every
\* string being a sequence of one-character strings.
None == <<"None">>

Range(s) == {s[i] : i \in DOMAIN s}

DigitChars == <<"0", "1", "2", "3", "4", "5", "6", "7", "8", "9">>

\* str(n) for n >= 0: the decimal digits of n.
RECURSIVE Str(_)
Str(n) ==
    IF n < 10 THEN <<DigitChars[n + 1]>>
    ELSE Str(n \div 10) \o <<DigitChars[(n % 10) + 1]>>

DigitVal(c) == CHOOSE d \in 0..9 : DigitChars[d + 1] = c

\* int(s) for a string of decimal digits.
RECURSIVE ParseInt(_)
ParseInt(s) ==
    IF Len(s) = 1 THEN DigitVal(s[1])
    ELSE 10 * ParseInt(SubSeq(s, 1, Len(s) - 1)) + DigitVal(s[Len(s)])

\* s.split(sep) for a one-character separator: the pieces between separators
\* (one more piece than there are separators).
Split(s, sep) ==
    LET P == {i \in DOMAIN s : s[i] = sep}
        n == Cardinality(P)
        pos(j) == IF j = 0 THEN 0
                  ELSE IF j = n + 1 THEN Len(s) + 1
                  ELSE CHOOSE i \in P : Cardinality({q \in P : q <= i}) = j
    IN  [j \in 1..(n + 1) |-> SubSeq(s, pos(j - 1) + 1, pos(j) - 1)]

\* A character is a one-character string; a character outside ASCII is written
\* as its Python escape ("\\xe9" is the one character U+00E9).
\*
\* The characters str.strip() removes (those str.isspace() holds for): the ASCII
\* ones, among them vertical tab and the separators 0x1c to 0x1f, and the
\* Unicode spaces.
Whitespace ==
    {" ", "\t", "\n", "\r", "\f", "", "", "", "", "",
     "\\x85", "\\xa0", "\\u1680", "\\u2000", "\\u2001", "\\u2002", "\\u2003",
     "\\u2004", "\\u2005", "\\u2006", "\\u2007", "\\u2008", "\\u2009",
     "\\u200a", "\\u2028", "\\u2029", "\\u202f", "\\u205f", "\\u3000"}

RECURSIVE LStrip(_)
LStrip(s) ==
    IF s # <<>> /\ Head(s) \in Whitespace THEN LStrip(Tail(s)) ELSE s

RECURSIVE RStrip(_)
RStrip(s) ==
    IF s # <<>> /\ s[Len(s)] \in Whitespace
    THEN RStrip(SubSeq(s, 1, Len(s) - 1)) ELSE s

\* s.strip()
Strip(s) == RStrip(LStrip(s))

\* s.startswith(p)
StartsWith(s, p) == Len(s) >= Len(p) /\ SubSeq(s, 1, Len(p)) = p

\* s[:n]
Prefix(s, n) == SubSeq(s, 1, IF Len(s) < n THEN Len(s) ELSE n)

\* s.replace(c, "") for a one-character c.
Remove(s, c) == SelectSeq(s, LAMBDA x : x # c)

\* ---------------------------------------------------------------- builder

\* A value a score may be: an integer, or what else json.loads gives for a
\* score in the scoring service's answer. type is "int", "float" (a number with
\* a fraction), "str", "null" or "list"; n is the integer, the integer part of
\* the fraction (7 for 7.5), the number the string spells (7 for "7"), the
\* element of the list (7 for [7]), 0 for null.
Json(type, n) == [type |-> type, n |-> n]

\* The integer score n.
Score(n) == Json("int", n)

\* The fields of a freshly constructed builder.
__init__ == [nodes |-> <<>>, edges |-> <<>>, node_counter |-> 0]

node_ == <<"n", "o", "d", "e", "_">>

\* _create_id with the id made from the counter before the increment.
_create_id_stale(b) ==
    [node_counter |-> b.node_counter + 1,
     id |-> node_ \o Str(b.node_counter)]

\* _create_id: the counter after the increment, and the id made from it.
_create_id(b) ==
    [node_counter |-> b.node_counter + 1,
     id |-> node_ \o Str(b.node_counter + 1)]

\* _get_bucket with strict comparisons.
_get_bucket_strict(score) ==
    IF score < 5 THEN "low"
    ELSE IF score < 10 THEN "medium"
    ELSE "high"

_get_bucket(score) ==
    IF score <= 5 THEN "low"
    ELSE IF score <= 10 THEN "medium"
    ELSE "high"

Node(id, label, type, complexity, complexity_score) ==
    [id |-> id, label |-> label, type |-> type, complexity |-> complexity,
     complexity_score |-> complexity_score]

\* Edge built from positional arguments in the order (from, label, to).
Edge_positional(from_node, to_node, label) ==
    [from_node |-> from_node, to_node |-> label, label |-> to_node]

Edge(from_node, to_node, label) ==
    [from_node |-> from_node, to_node |-> to_node, label |-> label]

\* _get_bucket raises TypeError: the score does not compare with an integer.
_get_bucket_raises(score) == score.type \in {"str", "null", "list"}

\* Node(...) raises ValidationError. complexity_score is Optional[int]: None
\* is accepted and a string that spells an integer is converted to it; a number
\* with a fraction and a list are refused.
Node_raises(score) == score.type \in {"float", "list"}

\* _add_node: the builder after the call, with the returned id in field id.
\* When _get_bucket or Node(...) raises, raised is TRUE and the builder keeps
\* what _create_id did: the counter is one up and no node is appended.
_add_node(b, label, type, complexity_score) ==
    LET c == _create_id(b)
    IN  IF _get_bucket_raises(complexity_score) \/ Node_raises(complexity_score)
        THEN [nodes |-> b.nodes,
              edges |-> b.edges,
              node_counter |-> c.node_counter,
              id |-> c.id,
              raised |-> TRUE]
        ELSE LET bucket == _get_bucket(complexity_score.n)
             IN  [nodes |-> Append(b.nodes,
                                   Node(c.id, label, type, bucket,
                                        complexity_score.n)),
                  edges |-> b.edges,
                  node_counter |-> c.node_counter,
                  id |-> c.id,
                  raised |-> FALSE]

\* _add_edge with the two ends exchanged.
_add_edge_reversed(b, from_id, to_id, label) ==
    [nodes |-> b.nodes,
     edges |-> Append(b.edges, Edge(to_id, from_id, label)),
     node_counter |-> b.node_counter]

\* _add_edge: the builder after the call.
_add_edge(b, from_id, to_id, label) ==
    [nodes |-> b.nodes,
     edges |-> Append(b.edges, Edge(from_id, to_id, label)),
     node_counter |-> b.node_counter]

\* The builder part of a record that also carries a returned id.
Builder(r) ==
    [nodes |-> r.nodes, edges |-> r.edges, node_counter |-> r.node_counter]

\* ---------------------------------------------------------------- parsed input

\* An expression node of the syntax tree. kind is the node's class and id its
\* own text: the id of a Name, the source of a Constant, the operator of a
\* BoolOp ("and", "or") or of a UnaryOp ("not"), the name a Call calls; values
\* are the expressions below it: the operands of a BoolOp, the operand of a
\* UnaryOp, the arguments of a Call.
Expr(kind, id, values) == [kind |-> kind, id |-> id, values |-> values]

\* The field holds no expression (None).
NoExpr == Expr("None", <<>>, <<>>)

\* The operators as ast.unparse writes them.
Op ==
    [ And |-> <<"a", "n", "d">>,
      Or |-> <<"o", "r">>,
      Not |-> <<"n", "o", "t">> ]

Name(id) == Expr("Name", id, <<>>)
Constant(text) == Expr("Constant", text, <<>>)
BoolOp(op, values) == Expr("BoolOp", op, values)
UnaryOp(operand) == Expr("UnaryOp", Op.Not, <<operand>>)
CallOf(func, args) == Expr("Call", func, args)

\* A node of the syntax tree that is a statement or an exception handler. kind
\* is the node's class; value is the node's own expression (the test of an If
\* or While, the iterable of a For, the value of a Return or an Assign, the
\* context expression of a With, the type of an ExceptHandler; NoExpr: the node
\* has none); deep says that this expression nests deeper than the
\* interpreter's recursion limit lets ast.unparse descend.
Stmt(kind, value, body, orelse, deep) ==
    [kind |-> kind, value |-> value, body |-> body, orelse |-> orelse,
     handlers |-> <<>>, finalbody |-> <<>>, deep |-> deep]

\* except type: body (type NoExpr: a bare except)
ExceptHandler(type, body) == Stmt("ExceptHandler", type, body, <<>>, FALSE)

\* try: body, its handlers, else: orelse, finally: finalbody
Try(body, handlers, orelse, finalbody) ==
    [Stmt("Try", NoExpr, body, orelse, FALSE) EXCEPT
        !.handlers = handlers, !.finalbody = finalbody]

\* The source texts of the names and constants the inputs are made of.
Src ==
    [ One |-> <<"1">>,
      A |-> <<"a">>,
      B |-> <<"b">>,
      E |-> <<"E">>,
      F |-> <<"f">>,
      Y |-> <<"y">>,
      Compute |-> <<"c", "o", "m", "p", "u", "t", "e", "_", "t", "o", "t", "a", "l">>,
      Alpha |-> <<"a", "l", "p", "h", "a">>,
      Beta |-> <<"b", "e", "t", "a">> ]

\* a and b and ... with n operands
Conjunction(n) ==
    LET Letters == <<"a", "b", "c", "d", "e", "f", "g", "h", "i", "j", "k", "l", "m">>
    IN  BoolOp(Op.And, [i \in 1..n |-> Name(<<Letters[i]>>)])

\* The tests of an If: a (score 2 for a lone if) and a conjunction of nine names
\* (score 10 for a lone if, 11 and more with a nested branch).
Tests == {Name(Src.A), Conjunction(9)}

\* Further tests: a or b; not (a and b); f(a and b); a or (b and not a)
MoreTests ==
    { BoolOp(Op.Or, <<Name(Src.A), Name(Src.B)>>),
      UnaryOp(Conjunction(2)),
      CallOf(Src.F, <<Conjunction(2)>>),
      BoolOp(Op.Or, <<Name(Src.A),
                      BoolOp(Op.And, <<Name(Src.B), UnaryOp(Name(Src.A))>>)>>) }

Pass == Stmt("Pass", NoExpr, <<>>, <<>>, FALSE)

\* x = 1; x = 1 + 1 + ... nested too deep; return; return a
Leaves ==
    { Stmt("Assign", Constant(Src.One), <<>>, <<>>, FALSE),
      Stmt("Assign", Constant(Src.One), <<>>, <<>>, TRUE),
      Stmt("Return", NoExpr, <<>>, <<>>, FALSE),
      Stmt("Return", Name(Src.A), <<>>, <<>>, FALSE) }

\* Further statements without a body: x = compute_total(alpha, beta) or b;
\* pass; import os; return 1 + 1 + ... nested too deep.
MoreLeaves ==
    { Stmt("Assign",
           BoolOp(Op.Or, <<CallOf(Src.Compute, <<Name(Src.Alpha), Name(Src.Beta)>>),
                           Name(Src.B)>>),
           <<>>, <<>>, FALSE),
      Pass,
      Stmt("Import", NoExpr, <<>>, <<>>, FALSE),
      Stmt("Return", Constant(Src.One), <<>>, <<>>, TRUE) }

\* Forests(n, r): the statement sequences with n statements in all, every nested body
\* non-empty (Python's grammar), of which at most r are statements of the
\* further classes (MoreLeaves, With, Try, a nested FunctionDef, an If, While
\* or For whose own expression is deep, an If with one of MoreTests, a loop
\* with an else clause); StmtsOfSize(k, r): the statements with k statements.
\* The handlers of a Try count as one statement each only through their bodies;
\* a second, bare handler, an else and a finally clause of a Try hold one pass
\* that is not counted.
RECURSIVE Forests(_, _), StmtsOfSize(_, _)
Forests(n, r) ==
    IF n = 0 THEN {<<>>}
    ELSE UNION { { <<s>> \o f : s \in StmtsOfSize(k, q), f \in Forests(n - k, r - q) }
                 : k \in 1..n, q \in 0..r }

StmtsOfSize(k, r) ==
    IF k = 1 THEN Leaves \cup (IF r > 0 THEN MoreLeaves ELSE {})
    ELSE { Stmt("If", t, b, <<>>, FALSE) :
              t \in Tests, b \in Forests(k - 1, r) }
         \cup UNION { { Stmt("If", t, b, e, FALSE) :
                          t \in Tests, b \in Forests(j, q),
                          e \in Forests(k - 1 - j, r - q) }
                      : j \in 1..(k - 2), q \in 0..r }
         \cup { Stmt("While", Name(Src.A), b, <<>>, FALSE) : b \in Forests(k - 1, r) }
         \cup { Stmt("For", Name(Src.Y), b, <<>>, FALSE) : b \in Forests(k - 1, r) }
         \cup (IF r = 0 THEN {}
               ELSE { Stmt(kd, Name(Src.A), b, <<>>, kd # "With") :
                        kd \in {"If", "While", "For", "With"},
                        b \in Forests(k - 1, r - 1) }
                    \cup { Stmt("If", t, b, <<>>, FALSE) :
                             t \in MoreTests, b \in Forests(k - 1, r - 1) }
                    \cup { Stmt("FunctionDef", NoExpr, b, <<>>, FALSE) :
                             b \in Forests(k - 1, r - 1) }
                    \cup UNION { { Stmt(kd, Name(Src.A), b, e, FALSE) :
                                     kd \in {"While", "For"},
                                     b \in Forests(j, r - 1),
                                     e \in Forests(k - 1 - j, 0) }
                                 : j \in 1..(k - 2) }
                    \cup UNION { { Try(b, <<ExceptHandler(t, h)>>, <<>>, <<>>) :
                                     t \in {Name(Src.E), NoExpr},
                                     b \in Forests(j, r - 1),
                                     h \in Forests(k - 1 - j, 0) }
                                 \cup
                                 { Try(b, <<ExceptHandler(Name(Src.E), h),
                                            ExceptHandler(NoExpr, <<Pass>>)>>,
                                       <<Pass>>, <<Pass>>) :
                                     b \in Forests(j, r - 1),
                                     h \in Forests(k - 1 - j, 0) }
                                 : j \in 1..(k - 2) })

\* Module bodies with n statements in all: as Forests, and a top-level statement may
\* also be a function definition.
RECURSIVE Modules(_, _)
Modules(n, r) ==
    IF n = 0 THEN {<<>>}
    ELSE UNION { { <<s>> \o f :
                     s \in StmtsOfSize(k, q)
                           \cup (IF k = 1 THEN {}
                                 ELSE { Stmt("FunctionDef", NoExpr, b, <<>>, FALSE)
                                        : b \in Forests(k - 1, q) }),
                     f \in Modules(n - k, r - q) }
                 : k \in 1..n, q \in 0..r }

\* ast._Precedence: the levels _Unparser compares to place parentheses.
Precedence ==
    [ TEST |-> 4,
      OR |-> 5,
      AND |-> 6,
      NOT |-> 7,
      ATOM |-> 18 ]

\* _Precedence.next, taken n times
PrecedenceNext(p, n) ==
    IF p + n > Precedence.ATOM THEN Precedence.ATOM ELSE p + n

\* _Unparser.require_parens
Parens(needed, text) == IF needed THEN <<"(">> \o text \o <<")">> ELSE text

\* _Unparser.interleave: the texts with sep between them
RECURSIVE Interleave(_, _)
Interleave(texts, sep) ==
    IF texts = <<>> THEN <<>>
    ELSE IF Len(texts) = 1 THEN texts[1]
    ELSE texts[1] \o sep \o Interleave(Tail(texts), sep)

\* _Unparser.traverse of an expression whose precedence is set to p. A BoolOp
\* sets the precedence of its i-th operand i levels above its operator's and is
\* parenthesised when its own is above the operator's; not sets its operand's
\* to NOT; the arguments of a Call keep the default (TEST).
RECURSIVE UnparseAt(_, _)
UnparseAt(e, p) ==
    CASE e.kind = "BoolOp" ->
           LET q == IF e.id = Op.And THEN Precedence.AND ELSE Precedence.OR
           IN  Parens(p > q,
                      Interleave([i \in DOMAIN e.values |->
                                    UnparseAt(e.values[i], PrecedenceNext(q, i))],
                                 <<" ">> \o e.id \o <<" ">>))
      [] e.kind = "UnaryOp" ->
           Parens(p > Precedence.NOT,
                  e.id \o <<" ">> \o UnparseAt(e.values[1], Precedence.NOT))
      [] e.kind = "Call" ->
           e.id \o <<"(">>
           \o Interleave([i \in DOMAIN e.values |->
                            UnparseAt(e.values[i], Precedence.TEST)],
                         <<",", " ">>)
           \o <<")">>
      [] OTHER -> e.id

\* ast.unparse of an expression; inside a statement, the traverse of the
\* statement's own expression.
UnparseExpr(e) == UnparseAt(e, Precedence.TEST)

\* _Unparser.fill: the text on a new line at the indentation, the new line left
\* out when nothing is written yet.
Fill(src, indent, text) ==
    (IF src = <<>> THEN <<>> ELSE src \o <<"\n">>)
    \o [i \in 1..(4 * indent) |-> " "] \o text

\* The fixed texts _Unparser writes for the statements: keywords, and the
\* names the statements of the inputs use (for i in, def f():, import os, x =).
Kw ==
    [ If |-> <<"i", "f", " ">>,
      Elif |-> <<"e", "l", "i", "f", " ">>,
      Else |-> <<"e", "l", "s", "e", ":">>,
      While |-> <<"w", "h", "i", "l", "e", " ">>,
      For |-> <<"f", "o", "r", " ", "i", " ", "i", "n", " ">>,
      With |-> <<"w", "i", "t", "h", " ">>,
      Def |-> <<"d", "e", "f", " ", "f", "(", ")", ":">>,
      Try |-> <<"t", "r", "y", ":">>,
      Except |-> <<"e", "x", "c", "e", "p", "t">>,
      Finally |-> <<"f", "i", "n", "a", "l", "l", "y", ":">>,
      Return |-> <<"r", "e", "t", "u", "r", "n">>,
      Pass |-> <<"p", "a", "s", "s">>,
      Import |-> <<"i", "m", "p", "o", "r", "t", " ", "o", "s">>,
      Assign |-> <<"x", " ", "=", " ">> ]

\* _Unparser.visit of a statement, of a statement list, of the orelse of an
\* If (one nested If is written as elif), of a clause that is left out when
\* empty (else of a loop or a Try, finally) and of the handlers of a Try, after
\* src at the indentation.
RECURSIVE UnparseStmt(_, _, _), UnparseBody(_, _, _), UnparseOrElse(_, _, _),
          UnparseClause(_, _, _, _), UnparseHandlers(_, _, _)
UnparseBody(src, stmts, indent) ==
    IF stmts = <<>> THEN src
    ELSE UnparseBody(UnparseStmt(src, Head(stmts), indent), Tail(stmts), indent)

UnparseOrElse(src, orelse, indent) ==
    IF orelse = <<>> THEN src
    ELSE IF Len(orelse) = 1 /\ orelse[1].kind = "If"
    THEN UnparseOrElse(
           UnparseBody(Fill(src, indent,
                            Kw.Elif \o UnparseExpr(orelse[1].value) \o <<":">>),
                       orelse[1].body, indent + 1),
           orelse[1].orelse, indent)
    ELSE UnparseBody(Fill(src, indent, Kw.Else), orelse, indent + 1)

UnparseClause(src, head, stmts, indent) ==
    IF stmts = <<>> THEN src
    ELSE UnparseBody(Fill(src, indent, head), stmts, indent + 1)

UnparseHandlers(src, handlers, indent) ==
    IF handlers = <<>> THEN src
    ELSE UnparseHandlers(UnparseStmt(src, Head(handlers), indent),
                         Tail(handlers), indent)

UnparseStmt(src, stmt, indent) ==
    LET block(head) == UnparseBody(Fill(src, indent, head), stmt.body, indent + 1)
        colon == <<":">>
    IN  CASE stmt.kind = "If" ->
               UnparseOrElse(block(Kw.If \o UnparseExpr(stmt.value) \o colon),
                             stmt.orelse, indent)
          [] stmt.kind = "While" ->
               UnparseClause(block(Kw.While \o UnparseExpr(stmt.value) \o colon),
                             Kw.Else, stmt.orelse, indent)
          [] stmt.kind = "For" ->
               UnparseClause(block(Kw.For \o UnparseExpr(stmt.value) \o colon),
                             Kw.Else, stmt.orelse, indent)
          [] stmt.kind = "With" -> block(Kw.With \o UnparseExpr(stmt.value) \o colon)
          [] stmt.kind = "FunctionDef" ->
               UnparseBody(
                 Fill(IF src = <<>> THEN src ELSE src \o <<"\n">>, indent, Kw.Def),
                 stmt.body, indent + 1)
          [] stmt.kind = "Try" ->
               UnparseClause(
                 UnparseClause(
                   UnparseHandlers(block(Kw.Try), stmt.handlers, indent),
                   Kw.Else, stmt.orelse, indent),
                 Kw.Finally, stmt.finalbody, indent)
          [] stmt.kind = "ExceptHandler" ->
               block(Kw.Except
                     \o (IF stmt.value = NoExpr THEN <<>>
                         ELSE <<" ">> \o UnparseExpr(stmt.value))
                     \o colon)
          [] stmt.kind = "Return" ->
               Fill(src, indent,
                    Kw.Return \o (IF stmt.value = NoExpr THEN <<>>
                                  ELSE <<" ">> \o UnparseExpr(stmt.value)))
          [] stmt.kind = "Pass" -> Fill(src, indent, Kw.Pass)
          [] stmt.kind = "Import" -> Fill(src, indent, Kw.Import)
          [] OTHER -> Fill(src, indent, Kw.Assign \o UnparseExpr(stmt.value))

\* ast.unparse of a statement.
Unparse(stmt) == UnparseStmt(<<>>, stmt, 0)

\* ast.iter_child_nodes restricted to statements and handlers, in field order.
iter_child_nodes(node) ==
    node.body \o node.handlers \o node.orelse \o node.finalbody

\* ast.walk from the nodes in todo: breadth first, node before its children.
RECURSIVE walk(_)
walk(todo) ==
    IF todo = <<>> THEN <<>>
    ELSE <<Head(todo)>> \o walk(Tail(todo) \o iter_child_nodes(Head(todo)))

\* ast.unparse raises RecursionError: an expression of the statement or of a
\* statement inside it is deep.
UnparseRaises(stmt) ==
    LET w == walk(<<stmt>>) IN \E i \in DOMAIN w : w[i].deep

RECURSIVE SumSeq(_)
SumSeq(s) == IF s = <<>> THEN 0 ELSE Head(s) + SumSeq(Tail(s))

\* What the BoolOp nodes ast.walk finds in an expression add to the score:
\* len(child.values) - 1 each.
RECURSIVE BoolOpScore(_)
BoolOpScore(e) ==
    (IF e.kind = "BoolOp" THEN Len(e.values) - 1 ELSE 0)
    + SumSeq([i \in DOMAIN e.values |-> BoolOpScore(e.values[i])])

\* PythonFlowchartBuilder.calculate_complexity: 1, plus 1 for every If, For,
\* While, ExceptHandler and With among the walked nodes, plus the further
\* operands of every BoolOp among them.
calculate_complexity(node) ==
    LET w == walk(<<node>>)
    IN  1 + SumSeq([i \in DOMAIN w |->
                      (IF w[i].kind \in {"If", "For", "While", "ExceptHandler", "With"}
                       THEN 1 ELSE 0)
                      + BoolOpScore(w[i].value)])

\* functions without the walk: no function definition is ever found.
functions_none(tree) == <<>>

\* functions of build_flowchart: the FunctionDef nodes of ast.walk(tree).
functions(tree) == SelectSeq(walk(tree), LAMBDA n : n.kind = "FunctionDef")

\* ---------------------------------------------------------------- state

VARIABLES
    code,               \* the argument of build_flowchart
    pc,                 \* where build_flowchart is: "call", "python", "regex",
                        \* "done" (a Flowchart was returned), "raised"
    nodes,              \* builder.nodes
    edges,              \* builder.edges
    node_counter,       \* builder.node_counter
    stack,              \* the active calls of process_body, innermost last
    handled,            \* the ids held by the locals of process_body when it
                        \* finished an If or a loop, in order of completion
    ai_complexity_map,  \* RegexFlowchartBuilder.build: the batch scores
    lineno,             \* build: how many lines the loop has taken
    prev_id             \* build: prev_id

vars ==
    <<code, pc, nodes, edges, node_counter, stack, handled,
      ai_complexity_map, lineno, prev_id>>

\* The builder held in the variables.
B == [nodes |-> nodes, edges |-> edges, node_counter |-> node_counter]

SetBuilder(b) ==
    /\ nodes' = b.nodes
    /\ edges' = b.edges
    /\ node_counter' = b.node_counter

\* get_flowchart
get_flowchart == [nodes |-> nodes, edges |-> edges]

\* One call of process_body: its arguments and locals. i is the position of the
\* for loop (the next statement); wait says which recursive call the frame is
\* in ("stmt": none), head_id is decision_id or loop_id of the statement being
\* handled, last_true the value of that local.
Frame(statements, i, current_prev, wait, head_id, last_true) ==
    [statements |-> statements, i |-> i, current_prev |-> current_prev,
     wait |-> wait, head_id |-> head_id, last_true |-> last_true]

\* A call process_body(statements, prev_id) as it starts.
Call(statements, prev) == Frame(statements, 1, prev, "stmt", <<>>, <<>>)

Top == stack[Len(stack)]
Caller == stack[Len(stack) - 1]
\* The statement the top frame's loop is at.
Cur == Top.statements[Top.i]

AtStmt(kinds) ==
    /\ pc = "python"
    /\ Top.wait = "stmt"
    /\ Top.i <= Len(Top.statements)
    /\ Cur.kind \in kinds

\* The top frame's body has been walked: process_body returns current_prev.
Returning(wait) ==
    /\ pc = "python"
    /\ Top.wait = "stmt"
    /\ Top.i > Len(Top.statements)
    /\ Len(stack) > 1
    /\ Caller.wait = wait

ReplaceTop(st, f) == [st EXCEPT ![Len(st)] = f]
Pop(st) == SubSeq(st, 1, Len(st) - 1)

\* Advance without the assignment to current_prev.
Advance_KeepPrev(f, new_prev) ==
    Frame(f.statements, f.i + 1, f.current_prev, "stmt", <<>>, <<>>)

\* The frame after its statement is handled: the loop moves on from new_prev.
Advance(f, new_prev) ==
    Frame(f.statements, f.i + 1, new_prev, "stmt", <<>>, <<>>)

\* seq[k] with Python's 0-based index.
Item(seq, k) == seq[k + 1]

\* The string literals of the builders' labels.
Text ==
    [ Start |-> <<"S", "t", "a", "r", "t">>,
      Is |-> <<"I", "s", " ">>,
      EndIf |-> <<"E", "n", "d", " ", "I", "f">>,
      Loop |-> <<"L", "o", "o", "p", " ">>,
      ForLoop |-> <<"F", "o", "r", " ", "L", "o", "o", "p">>,
      EndLoop |-> <<"E", "n", "d", " ", "L", "o", "o", "p">>,
      Return |-> <<"R", "e", "t", "u", "r", "n", " ">>,
      None |-> <<"N", "o", "n", "e">>,
      End |-> <<"E", "n", "d">>,
      Yes |-> <<"Y", "e", "s">>,
      No |-> <<"N", "o">>,
      Next |-> <<"N", "e", "x", "t">>,
      Done |-> <<"D", "o", "n", "e">> ]

Ellipsis == <<".", ".", ".">>

\* if len(code) > 30: code = code[:27] + "..."
Truncate(s) == IF Len(s) > 30 THEN Prefix(s, 27) \o Ellipsis ELSE s

\* ---------------------------------------------------------------- build_flowchart, structured

\* An entry of handled.
Handled(kind, head, last, last_false, exit, orelse, has_next) ==
    [kind |-> kind, head |-> head, last |-> last, last_false |-> last_false,
     exit |-> exit, orelse |-> orelse, has_next |-> has_next]

RegexIdle ==
    UNCHANGED <<ai_complexity_map, lineno, prev_id>>

\* ast.parse succeeds: a fresh PythonFlowchartBuilder gets its Start node and
\* process_body is called on the first function's body, or on the module's.
ParseOk ==
    /\ pc = "call"
    /\ code.parse = "ok"
    /\ LET r == _add_node(__init__, Text.Start, "start", Score(1))
           fs == functions(code.tree)
           body == IF fs # <<>> THEN fs[1].body ELSE code.tree
       IN  /\ SetBuilder(Builder(r))
           /\ stack' = <<Call(body, r.id)>>
    /\ pc' = "python"
    /\ UNCHANGED <<code, handled>>
    /\ RegexIdle

\* ast.parse raises something that is no SyntaxError (a RecursionError on a
\* deeply nested expression): nothing catches it.
ParseRaises ==
    /\ pc = "call"
    /\ code.parse = "RecursionError"
    /\ pc' = "raised"
    /\ UNCHANGED <<code, nodes, edges, node_counter, stack, handled>>
    /\ RegexIdle

\* A RecursionError raised by ast.unparse leaves process_body and
\* build_flowchart: nothing catches it.
Raise ==
    /\ pc' = "raised"
    /\ UNCHANGED <<code, nodes, edges, node_counter, stack, handled>>
    /\ RegexIdle

\* isinstance(stmt, ast.If), when ast.unparse(stmt.test) exceeds the recursion
\* limit.
StmtIfRaises ==
    /\ AtStmt({"If"})
    /\ Cur.deep
    /\ Raise

\* isinstance(stmt, ast.If), up to the recursive call on stmt.body.
StmtIf ==
    /\ AtStmt({"If"})
    /\ ~Cur.deep
    /\ LET score == calculate_complexity(Cur)
           cond == UnparseExpr(Cur.value)
           r == _add_node(B, Text.Is \o cond \o <<"?">>, "decision", Score(score))
           b == _add_edge(Builder(r), Top.current_prev, r.id, None)
       IN  /\ SetBuilder(b)
           /\ stack' = Append(
                ReplaceTop(stack, [Top EXCEPT !.wait = "if_true", !.head_id = r.id]),
                Call(Cur.body, r.id))
    /\ UNCHANGED <<code, pc, handled>>
    /\ RegexIdle

\* The call on stmt.body returns last_true; stmt.orelse is not empty: the "Yes"
\* edge, then the recursive call on stmt.orelse.
IfTrueDoneElse ==
    /\ Returning("if_true")
    /\ LET f == Caller
           stmt == f.statements[f.i]
           last_true == Top.current_prev
           decision_id == f.head_id
           b == _add_edge(B, decision_id,
                          Item(nodes, ParseInt(Item(Split(last_true, "_"), 1)) - 1).id,
                          Text.Yes)
       IN  /\ stmt.orelse # <<>>
           /\ SetBuilder(b)
           /\ stack' = Append(
                ReplaceTop(Pop(stack),
                           [f EXCEPT !.wait = "if_false", !.last_true = last_true]),
                Call(stmt.orelse, decision_id))
    /\ UNCHANGED <<code, pc, handled>>
    /\ RegexIdle

\* IfTrueDoneNoElse with the "Yes" edge to the first node of the true branch.
IfTrueDoneNoElse_YesFirst ==
    /\ Returning("if_true")
    /\ LET f == Caller
           stmt == f.statements[f.i]
           last_true == Top.current_prev
           decision_id == f.head_id
           b1 == _add_edge(B, decision_id,
                           Item(nodes, ParseInt(Item(Split(decision_id, "_"), 1))).id,
                           Text.Yes)
           r == _add_node(b1, Text.EndIf, "merge", Score(1))
           merge_id == r.id
           b2 == _add_edge(Builder(r), last_true, merge_id, None)
           b3 == _add_edge(b2, decision_id, merge_id, Text.No)
       IN  /\ stmt.orelse = <<>>
           /\ SetBuilder(b3)
           /\ stack' = ReplaceTop(Pop(stack), Advance(f, merge_id))
           /\ handled' = Append(handled,
                Handled("If", decision_id, last_true, <<>>, merge_id, FALSE,
                        f.i < Len(f.statements)))
    /\ UNCHANGED <<code, pc>>
    /\ RegexIdle

\* The call on stmt.body returns last_true; stmt.orelse is empty: the "Yes"
\* edge, the merge node, the edge into it and the "No" edge.
IfTrueDoneNoElse ==
    /\ Returning("if_true")
    /\ LET f == Caller
           stmt == f.statements[f.i]
           last_true == Top.current_prev
           decision_id == f.head_id
           b1 == _add_edge(B, decision_id,
                           Item(nodes, ParseInt(Item(Split(last_true, "_"), 1)) - 1).id,
                           Text.Yes)
           r == _add_node(b1, Text.EndIf, "merge", Score(1))
           merge_id == r.id
           b2 == _add_edge(Builder(r), last_true, merge_id, None)
           b3 == _add_edge(b2, decision_id, merge_id, Text.No)
       IN  /\ stmt.orelse = <<>>
           /\ SetBuilder(b3)
           /\ stack' = ReplaceTop(Pop(stack), Advance(f, merge_id))
           /\ handled' = Append(handled,
                Handled("If", decision_id, last_true, <<>>, merge_id, FALSE,
                        f.i < Len(f.statements)))
    /\ UNCHANGED <<code, pc>>
    /\ RegexIdle

\* The call on stmt.orelse returns last_false: the merge node and the two edges
\* into it.
IfFalseDone ==
    /\ Returning("if_false")
    /\ LET f == Caller
           last_true == f.last_true
           last_false == Top.current_prev
           decision_id == f.head_id
           r == _add_node(B, Text.EndIf, "merge", Score(1))
           merge_id == r.id
           b2 == _add_edge(Builder(r), last_true, merge_id, None)
           b3 == _add_edge(b2, last_false, merge_id, None)
       IN  /\ SetBuilder(b3)
           /\ stack' = ReplaceTop(Pop(stack), Advance(f, merge_id))
           /\ handled' = Append(handled,
                Handled("If", decision_id, last_true, last_false, merge_id, TRUE,
                        f.i < Len(f.statements)))
    /\ UNCHANGED <<code, pc>>
    /\ RegexIdle

\* A While, when ast.unparse(stmt.test) exceeds the recursion limit (the label
\* of a For needs no ast.unparse).
StmtLoopRaises ==
    /\ AtStmt({"While"})
    /\ Cur.deep
    /\ Raise

\* isinstance(stmt, (ast.For, ast.While)), up to the recursive call on stmt.body.
StmtLoop ==
    /\ AtStmt({"For", "While"})
    /\ ~(Cur.kind = "While" /\ Cur.deep)
    /\ LET score == calculate_complexity(Cur)
           loop_label == IF Cur.kind = "While"
                         THEN Text.Loop \o UnparseExpr(Cur.value)
                         ELSE Text.ForLoop
           r == _add_node(B, loop_label, "decision", Score(score))
           b == _add_edge(Builder(r), Top.current_prev, r.id, None)
       IN  /\ SetBuilder(b)
           /\ stack' = Append(
                ReplaceTop(stack, [Top EXCEPT !.wait = "loop", !.head_id = r.id]),
                Call(Cur.body, r.id))
    /\ UNCHANGED <<code, pc, handled>>
    /\ RegexIdle

\* The call on the loop's body returns last_body: the "Next" edge, the End Loop
\* node and the "Done" edge.
LoopBodyDone ==
    /\ Returning("loop")
    /\ LET f == Caller
           last_body == Top.current_prev
           loop_id == f.head_id
           b1 == _add_edge(B, last_body, loop_id, Text.Next)
           r == _add_node(b1, Text.EndLoop, "process", Score(1))
           end_loop == r.id
           b2 == _add_edge(Builder(r), loop_id, end_loop, Text.Done)
       IN  /\ SetBuilder(b2)
           /\ stack' = ReplaceTop(Pop(stack), Advance(f, end_loop))
           /\ handled' = Append(handled,
                Handled("Loop", loop_id, last_body, <<>>, end_loop, FALSE,
                        f.i < Len(f.statements)))
    /\ UNCHANGED <<code, pc>>
    /\ RegexIdle

\* isinstance(stmt, ast.Return), when ast.unparse(stmt.value) exceeds the
\* recursion limit.
StmtReturnRaises ==
    /\ AtStmt({"Return"})
    /\ Cur.deep
    /\ Raise

\* isinstance(stmt, ast.Return)
StmtReturn ==
    /\ AtStmt({"Return"})
    /\ ~Cur.deep
    /\ LET val == IF Cur.value # NoExpr THEN UnparseExpr(Cur.value) ELSE Text.None
           r == _add_node(B, Text.Return \o val, "end", Score(1))
           ret_id == r.id
           b == _add_edge(Builder(r), Top.current_prev, ret_id, None)
       IN  /\ SetBuilder(b)
           /\ stack' = ReplaceTop(stack, Advance(Top, ret_id))
    /\ UNCHANGED <<code, pc, handled>>
    /\ RegexIdle

\* The statement classes process_body has a branch for; every other class takes
\* the else branch.
BranchKinds == {"If", "For", "While", "Return"}

AtOther ==
    /\ pc = "python"
    /\ Top.wait = "stmt"
    /\ Top.i <= Len(Top.statements)
    /\ Cur.kind \notin BranchKinds

\* Any other statement, when ast.unparse returns its text.
StmtOther ==
    /\ AtOther
    /\ ~UnparseRaises(Cur)
    /\ LET code_ == Unparse(Cur)
           r == _add_node(B, Truncate(code_), "process", Score(1))
           n_id == r.id
           b == _add_edge(Builder(r), Top.current_prev, n_id, None)
       IN  /\ SetBuilder(b)
           /\ stack' = ReplaceTop(stack, Advance(Top, n_id))
    /\ UNCHANGED <<code, pc, handled>>
    /\ RegexIdle

\* Any other statement, when ast.unparse(stmt) exceeds the recursion limit.
StmtOtherRaises ==
    /\ AtOther
    /\ UnparseRaises(Cur)
    /\ Raise

\* The outermost process_body returns: build_flowchart returns get_flowchart().
ReturnFlowchart ==
    /\ pc = "python"
    /\ Len(stack) = 1
    /\ Top.wait = "stmt"
    /\ Top.i > Len(Top.statements)
    /\ pc' = "done"
    /\ stack' = <<>>
    /\ UNCHANGED <<code, nodes, edges, node_counter, handled>>
    /\ RegexIdle

\* ---------------------------------------------------------------- unparsable input

\* Lines an input that ast.parse rejects is made of.
Line_Blank ==
    <<>>

Line_Hash ==
    <<" ", " ", "#", " ", "c">>

Line_Slashes ==
    <<"/", "/", " ", "c">>

Line_If ==
    <<"i", "f", " ", "(", "x", ")", " ", "{">>

Line_Return ==
    <<" ", " ", "r", "e", "t", "u", "r", "n", " ", "a", "l", "p",
      "h", "a", " ", "i", "f", " ", "b", "e", "t", "a", "_", "f",
      "l", "a", "g", " ", "e", "l", "s", "e", " ", "g", "a", "m",
      "m", "a", "_", "v", "a", "l", "u", "e", ";">>

Line_Brace ==
    <<"}", " ", "E", "l", "s", "e", " ", "{">>

Line_While ==
    <<"w", "h", "i", "l", "e", " ", "(", "a", "l", "p", "h", "a",
      "_", "v", "a", "l", "u", "e", "&", "&", "b", "e", "t", "a",
      "_", "v", "a", "l", "u", "e", " ", "|", "|", " ", "m", "o",
      "r", "e", ")", " ", "{">>

Line_Long ==
    <<"t", "o", "t", "a", "l", " ", "=", " ", "t", "o", "t", "a",
      "l", " ", "+", " ", "c", "o", "m", "p", "u", "t", "e", "(",
      "a", ",", " ", "b", ",", " ", "c", ")", ";">>

Line_BlockOpen ==
    <<"/", "*", " ", "c">>

Line_Star ==
    <<" ", "*", " ", "c">>

\* A conditional line between a vertical tab and a no-break space, with letters
\* outside ASCII in and next to its keywords (e acute, long s, capital omega).
Line_Unicode ==
    <<"", "i", "f", " ", "(", "\\xe9", "i", "f", ")", " ", "e", "l",
      "\\u017f", "e", " ", "\\u03a9", "o", "r", " ", "{", "\\xa0">>

Corpus ==
    {Line_Blank, Line_Hash, Line_Slashes, Line_If, Line_Return, Line_Brace,
     Line_While, Line_Long, Line_BlockOpen, Line_Star, Line_Unicode}

\* The lines of Corpus a text that ast.parse accepts can hold: a text of blank
\* lines, comments and assignments parses.
Parsable == {Line_Blank, Line_Hash, Line_Long}

\* The other lines: a text of lines of Corpus with one of them makes ast.parse
\* raise SyntaxError.
Unparsable == Corpus \ Parsable

\* "\n".join(ls)
RECURSIVE Join(_)
Join(ls) ==
    IF Len(ls) = 1 THEN ls[1]
    ELSE ls[1] \o <<"\n">> \o Join(Tail(ls))

\* The texts of 1..MaxLines lines of Corpus that ast.parse rejects.
Texts ==
    { Join(ls) : ls \in { l \in UNION { [1..n -> Corpus] : n \in 1..MaxLines } :
                          \E i \in DOMAIN l : l[i] \in Unparsable } }

UpperChars ==
    <<"A", "B", "C", "D", "E", "F", "G", "H", "I", "J", "K", "L", "M",
      "N", "O", "P", "Q", "R", "S", "T", "U", "V", "W", "X", "Y", "Z">>

LowerChars ==
    <<"a", "b", "c", "d", "e", "f", "g", "h", "i", "j", "k", "l", "m",
      "n", "o", "p", "q", "r", "s", "t", "u", "v", "w", "x", "y", "z">>

\* The capital letters of Latin-1 and, at the same index, their small letters.
Latin1Upper ==
    <<"\\xc0", "\\xc1", "\\xc2", "\\xc3", "\\xc4", "\\xc5", "\\xc6", "\\xc7",
      "\\xc8", "\\xc9", "\\xca", "\\xcb", "\\xcc", "\\xcd", "\\xce", "\\xcf",
      "\\xd0", "\\xd1", "\\xd2", "\\xd3", "\\xd4", "\\xd5", "\\xd6", "\\xd8",
      "\\xd9", "\\xda", "\\xdb", "\\xdc", "\\xdd", "\\xde">>

Latin1Lower ==
    <<"\\xe0", "\\xe1", "\\xe2", "\\xe3", "\\xe4", "\\xe5", "\\xe6", "\\xe7",
      "\\xe8", "\\xe9", "\\xea", "\\xeb", "\\xec", "\\xed", "\\xee", "\\xef",
      "\\xf0", "\\xf1", "\\xf2", "\\xf3", "\\xf4", "\\xf5", "\\xf6", "\\xf8",
      "\\xf9", "\\xfa", "\\xfb", "\\xfc", "\\xfd", "\\xfe">>

\* The other characters of Latin-1 that \w matches (letters without a case
\* pair there, superscript digits, fractions).
Latin1Word ==
    {"\\xaa", "\\xb2", "\\xb3", "\\xb5", "\\xb9", "\\xba", "\\xbc", "\\xbd",
     "\\xbe", "\\xdf", "\\xff"}

\* The characters beyond Latin-1 that match an ASCII letter under re.IGNORECASE,
\* each followed by that letter: long s, dotless i, dotted I, the Kelvin sign.
FoldsToAscii ==
    <<<<"\\u0130", "i">>, <<"\\u0131", "i">>, <<"\\u017f", "s">>,
      <<"\\u212a", "k">>>>

\* The case-insensitive form of a character under re.IGNORECASE on a str
\* pattern, for the comparison with a character of a keyword: a character and
\* a keyword's character match when their forms are equal. A character that is
\* not in the table matches no character of a keyword but itself.
CaseTable ==
    LET pairs == {<<UpperChars[i], LowerChars[i]>> : i \in DOMAIN UpperChars}
                 \cup {<<Latin1Upper[i], Latin1Lower[i]>> : i \in DOMAIN Latin1Upper}
                 \cup Range(FoldsToAscii)
    IN  [c \in {p[1] : p \in pairs} |-> (CHOOSE p \in pairs : p[1] = c)[2]]

Lower(c) == IF c \in DOMAIN CaseTable THEN CaseTable[c] ELSE c

LowerStr(s) == [i \in DOMAIN s |-> Lower(s[i])]

\* The two hexadecimal digits of a byte.
Byte ==
    LET HexDigits == <<"0", "1", "2", "3", "4", "5", "6", "7",
                       "8", "9", "a", "b", "c", "d", "e", "f">>
    IN  [n \in 0..255 |-> HexDigits[(n \div 16) + 1] \o HexDigits[(n % 16) + 1]]

\* The character with the code point n beyond U+00FF, written as Python
\* escapes it.
Chr(n) ==
    IF n < 65536 THEN "\\u" \o Byte[n \div 256] \o Byte[n % 256]
    ELSE "\\U00" \o Byte[n \div 65536] \o Byte[(n \div 256) % 256] \o Byte[n % 256]

\* The code points beyond U+00FF of the characters \w matches on a str
\* pattern, as ranges first to last (the letters and digits of Unicode 14.0.0,
\* the character database of Python 3.11).
WordRanges ==
    <<<<256, 705>>, <<710, 721>>, <<736, 740>>, <<748, 748>>, <<750, 750>>,
      <<880, 884>>, <<886, 887>>, <<890, 893>>, <<895, 895>>, <<902, 902>>,
      <<904, 906>>, <<908, 908>>, <<910, 929>>, <<931, 1013>>,
      <<1015, 1153>>, <<1162, 1327>>, <<1329, 1366>>, <<1369, 1369>>,
      <<1376, 1416>>, <<1488, 1514>>, <<1519, 1522>>, <<1568, 1610>>,
      <<1632, 1641>>, <<1646, 1647>>, <<1649, 1747>>, <<1749, 1749>>,
      <<1765, 1766>>, <<1774, 1788>>, <<1791, 1791>>, <<1808, 1808>>,
      <<1810, 1839>>, <<1869, 1957>>, <<1969, 1969>>, <<1984, 2026>>,
      <<2036, 2037>>, <<2042, 2042>>, <<2048, 2069>>, <<2074, 2074>>,
      <<2084, 2084>>, <<2088, 2088>>, <<2112, 2136>>, <<2144, 2154>>,
      <<2160, 2183>>, <<2185, 2190>>, <<2208, 2249>>, <<2308, 2361>>,
      <<2365, 2365>>, <<2384, 2384>>, <<2392, 2401>>, <<2406, 2415>>,
      <<2417, 2432>>, <<2437, 2444>>, <<2447, 2448>>, <<2451, 2472>>,
      <<2474, 2480>>, <<2482, 2482>>, <<2486, 2489>>, <<2493, 2493>>,
      <<2510, 2510>>, <<2524, 2525>>, <<2527, 2529>>, <<2534, 2545>>,
      <<2548, 2553>>, <<2556, 2556>>, <<2565, 2570>>, <<2575, 2576>>,
      <<2579, 2600>>, <<2602, 2608>>, <<2610, 2611>>, <<2613, 2614>>,
      <<2616, 2617>>, <<2649, 2652>>, <<2654, 2654>>, <<2662, 2671>>,
      <<2674, 2676>>, <<2693, 2701>>, <<2703, 2705>>, <<2707, 2728>>,
      <<2730, 2736>>, <<2738, 2739>>, <<2741, 2745>>, <<2749, 2749>>,
      <<2768, 2768>>, <<2784, 2785>>, <<2790, 2799>>, <<2809, 2809>>,
      <<2821, 2828>>, <<2831, 2832>>, <<2835, 2856>>, <<2858, 2864>>,
      <<2866, 2867>>, <<2869, 2873>>, <<2877, 2877>>, <<2908, 2909>>,
      <<2911, 2913>>, <<2918, 2927>>, <<2929, 2935>>, <<2947, 2947>>,
      <<2949, 2954>>, <<2958, 2960>>, <<2962, 2965>>, <<2969, 2970>>,
      <<2972, 2972>>, <<2974, 2975>>, <<2979, 2980>>, <<2984, 2986>>,
      <<2990, 3001>>, <<3024, 3024>>, <<3046, 3058>>, <<3077, 3084>>,
      <<3086, 3088>>, <<3090, 3112>>, <<3114, 3129>>, <<3133, 3133>>,
      <<3160, 3162>>, <<3165, 3165>>, <<3168, 3169>>, <<3174, 3183>>,
      <<3192, 3198>>, <<3200, 3200>>, <<3205, 3212>>, <<3214, 3216>>,
      <<3218, 3240>>, <<3242, 3251>>, <<3253, 3257>>, <<3261, 3261>>,
      <<3293, 3294>>, <<3296, 3297>>, <<3302, 3311>>, <<3313, 3314>>,
      <<3332, 3340>>, <<3342, 3344>>, <<3346, 3386>>, <<3389, 3389>>,
      <<3406, 3406>>, <<3412, 3414>>, <<3416, 3425>>, <<3430, 3448>>,
      <<3450, 3455>>, <<3461, 3478>>, <<3482, 3505>>, <<3507, 3515>>,
      <<3517, 3517>>, <<3520, 3526>>, <<3558, 3567>>, <<3585, 3632>>,
      <<3634, 3635>>, <<3648, 3654>>, <<3664, 3673>>, <<3713, 3714>>,
      <<3716, 3716>>, <<3718, 3722>>, <<3724, 3747>>, <<3749, 3749>>,
      <<3751, 3760>>, <<3762, 3763>>, <<3773, 3773>>, <<3776, 3780>>,
      <<3782, 3782>>, <<3792, 3801>>, <<3804, 3807>>, <<3840, 3840>>,
      <<3872, 3891>>, <<3904, 3911>>, <<3913, 3948>>, <<3976, 3980>>,
      <<4096, 4138>>, <<4159, 4169>>, <<4176, 4181>>, <<4186, 4189>>,
      <<4193, 4193>>, <<4197, 4198>>, <<4206, 4208>>, <<4213, 4225>>,
      <<4238, 4238>>, <<4240, 4249>>, <<4256, 4293>>, <<4295, 4295>>,
      <<4301, 4301>>, <<4304, 4346>>, <<4348, 4680>>, <<4682, 4685>>,
      <<4688, 4694>>, <<4696, 4696>>, <<4698, 4701>>, <<4704, 4744>>,
      <<4746, 4749>>, <<4752, 4784>>, <<4786, 4789>>, <<4792, 4798>>,
      <<4800, 4800>>, <<4802, 4805>>, <<4808, 4822>>, <<4824, 4880>>,
      <<4882, 4885>>, <<4888, 4954>>, <<4969, 4988>>, <<4992, 5007>>,
      <<5024, 5109>>, <<5112, 5117>>, <<5121, 5740>>, <<5743, 5759>>,
      <<5761, 5786>>, <<5792, 5866>>, <<5870, 5880>>, <<5888, 5905>>,
      <<5919, 5937>>, <<5952, 5969>>, <<5984, 5996>>, <<5998, 6000>>,
      <<6016, 6067>>, <<6103, 6103>>, <<6108, 6108>>, <<6112, 6121>>,
      <<6128, 6137>>, <<6160, 6169>>, <<6176, 6264>>, <<6272, 6276>>,
      <<6279, 6312>>, <<6314, 6314>>, <<6320, 6389>>, <<6400, 6430>>,
      <<6470, 6509>>, <<6512, 6516>>, <<6528, 6571>>, <<6576, 6601>>,
      <<6608, 6618>>, <<6656, 6678>>, <<6688, 6740>>, <<6784, 6793>>,
      <<6800, 6809>>, <<6823, 6823>>, <<6917, 6963>>, <<6981, 6988>>,
      <<6992, 7001>>, <<7043, 7072>>, <<7086, 7141>>, <<7168, 7203>>,
      <<7232, 7241>>, <<7245, 7293>>, <<7296, 7304>>, <<7312, 7354>>,
      <<7357, 7359>>, <<7401, 7404>>, <<7406, 7411>>, <<7413, 7414>>,
      <<7418, 7418>>, <<7424, 7615>>, <<7680, 7957>>, <<7960, 7965>>,
      <<7968, 8005>>, <<8008, 8013>>, <<8016, 8023>>, <<8025, 8025>>,
      <<8027, 8027>>, <<8029, 8029>>, <<8031, 8061>>, <<8064, 8116>>,
      <<8118, 8124>>, <<8126, 8126>>, <<8130, 8132>>, <<8134, 8140>>,
      <<8144, 8147>>, <<8150, 8155>>, <<8160, 8172>>, <<8178, 8180>>,
      <<8182, 8188>>, <<8304, 8305>>, <<8308, 8313>>, <<8319, 8329>>,
      <<8336, 8348>>, <<8450, 8450>>, <<8455, 8455>>, <<8458, 8467>>,
      <<8469, 8469>>, <<8473, 8477>>, <<8484, 8484>>, <<8486, 8486>>,
      <<8488, 8488>>, <<8490, 8493>>, <<8495, 8505>>, <<8508, 8511>>,
      <<8517, 8521>>, <<8526, 8526>>, <<8528, 8585>>, <<9312, 9371>>,
      <<9450, 9471>>, <<10102, 10131>>, <<11264, 11492>>, <<11499, 11502>>,
      <<11506, 11507>>, <<11517, 11517>>, <<11520, 11557>>, <<11559, 11559>>,
      <<11565, 11565>>, <<11568, 11623>>, <<11631, 11631>>, <<11648, 11670>>,
      <<11680, 11686>>, <<11688, 11694>>, <<11696, 11702>>, <<11704, 11710>>,
      <<11712, 11718>>, <<11720, 11726>>, <<11728, 11734>>, <<11736, 11742>>,
      <<11823, 11823>>, <<12293, 12295>>, <<12321, 12329>>, <<12337, 12341>>,
      <<12344, 12348>>, <<12353, 12438>>, <<12445, 12447>>, <<12449, 12538>>,
      <<12540, 12543>>, <<12549, 12591>>, <<12593, 12686>>, <<12690, 12693>>,
      <<12704, 12735>>, <<12784, 12799>>, <<12832, 12841>>, <<12872, 12879>>,
      <<12881, 12895>>, <<12928, 12937>>, <<12977, 12991>>, <<13312, 19903>>,
      <<19968, 42124>>, <<42192, 42237>>, <<42240, 42508>>, <<42512, 42539>>,
      <<42560, 42606>>, <<42623, 42653>>, <<42656, 42735>>, <<42775, 42783>>,
      <<42786, 42888>>, <<42891, 42954>>, <<42960, 42961>>, <<42963, 42963>>,
      <<42965, 42969>>, <<42994, 43009>>, <<43011, 43013>>, <<43015, 43018>>,
      <<43020, 43042>>, <<43056, 43061>>, <<43072, 43123>>, <<43138, 43187>>,
      <<43216, 43225>>, <<43250, 43255>>, <<43259, 43259>>, <<43261, 43262>>,
      <<43264, 43301>>, <<43312, 43334>>, <<43360, 43388>>, <<43396, 43442>>,
      <<43471, 43481>>, <<43488, 43492>>, <<43494, 43518>>, <<43520, 43560>>,
      <<43584, 43586>>, <<43588, 43595>>, <<43600, 43609>>, <<43616, 43638>>,
      <<43642, 43642>>, <<43646, 43695>>, <<43697, 43697>>, <<43701, 43702>>,
      <<43705, 43709>>, <<43712, 43712>>, <<43714, 43714>>, <<43739, 43741>>,
      <<43744, 43754>>, <<43762, 43764>>, <<43777, 43782>>, <<43785, 43790>>,
      <<43793, 43798>>, <<43808, 43814>>, <<43816, 43822>>, <<43824, 43866>>,
      <<43868, 43881>>, <<43888, 44002>>, <<44016, 44025>>, <<44032, 55203>>,
      <<55216, 55238>>, <<55243, 55291>>, <<63744, 64109>>, <<64112, 64217>>,
      <<64256, 64262>>, <<64275, 64279>>, <<64285, 64285>>, <<64287, 64296>>,
      <<64298, 64310>>, <<64312, 64316>>, <<64318, 64318>>, <<64320, 64321>>,
      <<64323, 64324>>, <<64326, 64433>>, <<64467, 64829>>, <<64848, 64911>>,
      <<64914, 64967>>, <<65008, 65019>>, <<65136, 65140>>, <<65142, 65276>>,
      <<65296, 65305>>, <<65313, 65338>>, <<65345, 65370>>, <<65382, 65470>>,
      <<65474, 65479>>, <<65482, 65487>>, <<65490, 65495>>, <<65498, 65500>>,
      <<65536, 65547>>, <<65549, 65574>>, <<65576, 65594>>, <<65596, 65597>>,
      <<65599, 65613>>, <<65616, 65629>>, <<65664, 65786>>, <<65799, 65843>>,
      <<65856, 65912>>, <<65930, 65931>>, <<66176, 66204>>, <<66208, 66256>>,
      <<66273, 66299>>, <<66304, 66339>>, <<66349, 66378>>, <<66384, 66421>>,
      <<66432, 66461>>, <<66464, 66499>>, <<66504, 66511>>, <<66513, 66517>>,
      <<66560, 66717>>, <<66720, 66729>>, <<66736, 66771>>, <<66776, 66811>>,
      <<66816, 66855>>, <<66864, 66915>>, <<66928, 66938>>, <<66940, 66954>>,
      <<66956, 66962>>, <<66964, 66965>>, <<66967, 66977>>, <<66979, 66993>>,
      <<66995, 67001>>, <<67003, 67004>>, <<67072, 67382>>, <<67392, 67413>>,
      <<67424, 67431>>, <<67456, 67461>>, <<67463, 67504>>, <<67506, 67514>>,
      <<67584, 67589>>, <<67592, 67592>>, <<67594, 67637>>, <<67639, 67640>>,
      <<67644, 67644>>, <<67647, 67669>>, <<67672, 67702>>, <<67705, 67742>>,
      <<67751, 67759>>, <<67808, 67826>>, <<67828, 67829>>, <<67835, 67867>>,
      <<67872, 67897>>, <<67968, 68023>>, <<68028, 68047>>, <<68050, 68096>>,
      <<68112, 68115>>, <<68117, 68119>>, <<68121, 68149>>, <<68160, 68168>>,
      <<68192, 68222>>, <<68224, 68255>>, <<68288, 68295>>, <<68297, 68324>>,
      <<68331, 68335>>, <<68352, 68405>>, <<68416, 68437>>, <<68440, 68466>>,
      <<68472, 68497>>, <<68521, 68527>>, <<68608, 68680>>, <<68736, 68786>>,
      <<68800, 68850>>, <<68858, 68899>>, <<68912, 68921>>, <<69216, 69246>>,
      <<69248, 69289>>, <<69296, 69297>>, <<69376, 69415>>, <<69424, 69445>>,
      <<69457, 69460>>, <<69488, 69505>>, <<69552, 69579>>, <<69600, 69622>>,
      <<69635, 69687>>, <<69714, 69743>>, <<69745, 69746>>, <<69749, 69749>>,
      <<69763, 69807>>, <<69840, 69864>>, <<69872, 69881>>, <<69891, 69926>>,
      <<69942, 69951>>, <<69956, 69956>>, <<69959, 69959>>, <<69968, 70002>>,
      <<70006, 70006>>, <<70019, 70066>>, <<70081, 70084>>, <<70096, 70106>>,
      <<70108, 70108>>, <<70113, 70132>>, <<70144, 70161>>, <<70163, 70187>>,
      <<70272, 70278>>, <<70280, 70280>>, <<70282, 70285>>, <<70287, 70301>>,
      <<70303, 70312>>, <<70320, 70366>>, <<70384, 70393>>, <<70405, 70412>>,
      <<70415, 70416>>, <<70419, 70440>>, <<70442, 70448>>, <<70450, 70451>>,
      <<70453, 70457>>, <<70461, 70461>>, <<70480, 70480>>, <<70493, 70497>>,
      <<70656, 70708>>, <<70727, 70730>>, <<70736, 70745>>, <<70751, 70753>>,
      <<70784, 70831>>, <<70852, 70853>>, <<70855, 70855>>, <<70864, 70873>>,
      <<71040, 71086>>, <<71128, 71131>>, <<71168, 71215>>, <<71236, 71236>>,
      <<71248, 71257>>, <<71296, 71338>>, <<71352, 71352>>, <<71360, 71369>>,
      <<71424, 71450>>, <<71472, 71483>>, <<71488, 71494>>, <<71680, 71723>>,
      <<71840, 71922>>, <<71935, 71942>>, <<71945, 71945>>, <<71948, 71955>>,
      <<71957, 71958>>, <<71960, 71983>>, <<71999, 71999>>, <<72001, 72001>>,
      <<72016, 72025>>, <<72096, 72103>>, <<72106, 72144>>, <<72161, 72161>>,
      <<72163, 72163>>, <<72192, 72192>>, <<72203, 72242>>, <<72250, 72250>>,
      <<72272, 72272>>, <<72284, 72329>>, <<72349, 72349>>, <<72368, 72440>>,
      <<72704, 72712>>, <<72714, 72750>>, <<72768, 72768>>, <<72784, 72812>>,
      <<72818, 72847>>, <<72960, 72966>>, <<72968, 72969>>, <<72971, 73008>>,
      <<73030, 73030>>, <<73040, 73049>>, <<73056, 73061>>, <<73063, 73064>>,
      <<73066, 73097>>, <<73112, 73112>>, <<73120, 73129>>, <<73440, 73458>>,
      <<73648, 73648>>, <<73664, 73684>>, <<73728, 74649>>, <<74752, 74862>>,
      <<74880, 75075>>, <<77712, 77808>>, <<77824, 78894>>, <<82944, 83526>>,
      <<92160, 92728>>, <<92736, 92766>>, <<92768, 92777>>, <<92784, 92862>>,
      <<92864, 92873>>, <<92880, 92909>>, <<92928, 92975>>, <<92992, 92995>>,
      <<93008, 93017>>, <<93019, 93025>>, <<93027, 93047>>, <<93053, 93071>>,
      <<93760, 93846>>, <<93952, 94026>>, <<94032, 94032>>, <<94099, 94111>>,
      <<94176, 94177>>, <<94179, 94179>>, <<94208, 100343>>,
      <<100352, 101589>>, <<101632, 101640>>, <<110576, 110579>>,
      <<110581, 110587>>, <<110589, 110590>>, <<110592, 110882>>,
      <<110928, 110930>>, <<110948, 110951>>, <<110960, 111355>>,
      <<113664, 113770>>, <<113776, 113788>>, <<113792, 113800>>,
      <<113808, 113817>>, <<119520, 119539>>, <<119648, 119672>>,
      <<119808, 119892>>, <<119894, 119964>>, <<119966, 119967>>,
      <<119970, 119970>>, <<119973, 119974>>, <<119977, 119980>>,
      <<119982, 119993>>, <<119995, 119995>>, <<119997, 120003>>,
      <<120005, 120069>>, <<120071, 120074>>, <<120077, 120084>>,
      <<120086, 120092>>, <<120094, 120121>>, <<120123, 120126>>,
      <<120128, 120132>>, <<120134, 120134>>, <<120138, 120144>>,
      <<120146, 120485>>, <<120488, 120512>>, <<120514, 120538>>,
      <<120540, 120570>>, <<120572, 120596>>, <<120598, 120628>>,
      <<120630, 120654>>, <<120656, 120686>>, <<120688, 120712>>,
      <<120714, 120744>>, <<120746, 120770>>, <<120772, 120779>>,
      <<120782, 120831>>, <<122624, 122654>>, <<123136, 123180>>,
      <<123191, 123197>>, <<123200, 123209>>, <<123214, 123214>>,
      <<123536, 123565>>, <<123584, 123627>>, <<123632, 123641>>,
      <<124896, 124902>>, <<124904, 124907>>, <<124909, 124910>>,
      <<124912, 124926>>, <<124928, 125124>>, <<125127, 125135>>,
      <<125184, 125251>>, <<125259, 125259>>, <<125264, 125273>>,
      <<126065, 126123>>, <<126125, 126127>>, <<126129, 126132>>,
      <<126209, 126253>>, <<126255, 126269>>, <<126464, 126467>>,
      <<126469, 126495>>, <<126497, 126498>>, <<126500, 126500>>,
      <<126503, 126503>>, <<126505, 126514>>, <<126516, 126519>>,
      <<126521, 126521>>, <<126523, 126523>>, <<126530, 126530>>,
      <<126535, 126535>>, <<126537, 126537>>, <<126539, 126539>>,
      <<126541, 126543>>, <<126545, 126546>>, <<126548, 126548>>,
      <<126551, 126551>>, <<126553, 126553>>, <<126555, 126555>>,
      <<126557, 126557>>, <<126559, 126559>>, <<126561, 126562>>,
      <<126564, 126564>>, <<126567, 126570>>, <<126572, 126578>>,
      <<126580, 126583>>, <<126585, 126588>>, <<126590, 126590>>,
      <<126592, 126601>>, <<126603, 126619>>, <<126625, 126627>>,
      <<126629, 126633>>, <<126635, 126651>>, <<127232, 127244>>,
      <<130032, 130041>>, <<131072, 173791>>, <<173824, 177976>>,
      <<177984, 178205>>, <<178208, 183969>>, <<183984, 191456>>,
      <<194560, 195101>>, <<196608, 201546>>>>

WordCodes == UNION { r[1]..r[2] : r \in Range(WordRanges) }

\* The characters \w matches on a str pattern: the letters and digits of
\* Unicode, and the underscore.
WordChars ==
    Range(UpperChars) \cup Range(LowerChars) \cup Range(DigitChars) \cup {"_"}
    \cup Range(Latin1Upper) \cup Range(Latin1Lower) \cup Latin1Word
    \cup {Chr(n) : n \in WordCodes}

\* \b before position p of s (p = Len(s) + 1: at the end).
WordBoundary(s, p) ==
    (p > 1 /\ s[p - 1] \in WordChars) # (p <= Len(s) /\ s[p] \in WordChars)

\* \b kw \b matches at position p of s, ignoring case.
MatchAt(kw, s, p) ==
    /\ p + Len(kw) - 1 <= Len(s)
    /\ LowerStr(SubSeq(s, p, p + Len(kw) - 1)) = LowerStr(kw)
    /\ WordBoundary(s, p)
    /\ WordBoundary(s, p + Len(kw))

\* len(re.findall(r'\b' + re.escape(kw) + r'\b', s, re.IGNORECASE)), scanning
\* from position p: matches do not overlap.
RECURSIVE FindAll(_, _, _)
FindAll(kw, s, p) ==
    IF p + Len(kw) - 1 > Len(s) THEN 0
    ELSE IF MatchAt(kw, s, p) THEN 1 + FindAll(kw, s, p + Len(kw))
    ELSE FindAll(kw, s, p + 1)

keywords ==
    << <<"i", "f">>, <<"e", "l", "s", "e">>, <<"f", "o", "r">>,
       <<"w", "h", "i", "l", "e">>, <<"c", "a", "s", "e">>,
       <<"c", "a", "t", "c", "h">>, <<"&", "&">>, <<"|", "|">>,
       <<"A", "n", "d">>, <<"O", "r">> >>

\* RegexFlowchartBuilder.calculate_complexity_heuristic
calculate_complexity_heuristic(code_snippet) ==
    1 + SumSeq([k \in DOMAIN keywords |-> FindAll(keywords[k], code_snippet, 1)])

\* IsComment that knows the line comments only.
IsComment_LineOnly(line) ==
    \/ StartsWith(line, <<"/", "/">>)
    \/ StartsWith(line, <<"#">>)

\* line.startswith(("//", "#", "/*", "*"))
IsComment(line) ==
    \/ StartsWith(line, <<"/", "/">>)
    \/ StartsWith(line, <<"#">>)
    \/ StartsWith(line, <<"/", "*">>)
    \/ StartsWith(line, <<"*">>)

\* re.match(r'^(if|else if|elif)\s*\(?', line): the tail \s*\(? matches the
\* empty string, so the line matches when it starts with an alternative.
MatchesIf(line) ==
    \/ StartsWith(line, <<"i", "f">>)
    \/ StartsWith(line, <<"e", "l", "s", "e", " ", "i", "f">>)
    \/ StartsWith(line, <<"e", "l", "i", "f">>)

\* re.match(r'^(for|while|foreach)\s*\(?', line)
MatchesLoop(line) ==
    \/ StartsWith(line, <<"f", "o", "r">>)
    \/ StartsWith(line, <<"w", "h", "i", "l", "e">>)
    \/ StartsWith(line, <<"f", "o", "r", "e", "a", "c", "h">>)

\* line.startswith("return")
StartsReturn(line) == StartsWith(line, <<"r", "e", "t", "u", "r", "n">>)

\* line.split('{')[0].strip()[:30]
DecisionLabel(line) == Prefix(Strip(Item(Split(line, "{"), 0)), 30)

\* The integer scores the batch scorer answers with.
AiScores == {5, 6, 10, 11}

\* The scores of another JSON type it may answer with: "7", null, 7.5, [7].
AiBadScores ==
    {Json("str", 7), Json("null", 0), Json("float", 7), Json("list", 7)}

\* The lines the batch scorer may be asked about in its answer: exact trimmed
\* lines of the corpus, and one untrimmed line (a key no lookup finds).
AiKeys == {Line_If, Strip(Line_Return), Line_Return, Line_Long}

\* What groq_analyze_line_complexities returns: object says whether it is a
\* dict, items holds the dict's entries (none when it is no dict).
Answer(object, items) == [object |-> object, items |-> items]

\* groq_analyze_line_complexities: {} on any failure, else whatever json.loads
\* gives for the service's answer. Here an answer scores one line, or two lines
\* with neighbouring scores; or gives a score of another type for a
\* conditional line or for a return line; or is no object (null, a list).
AiMaps ==
    {Answer(TRUE, <<>>), Answer(FALSE, <<>>)}
    \cup { Answer(TRUE, [k \in {key} |-> Json("int", v)]) :
             key \in AiKeys, v \in AiScores }
    \cup { Answer(TRUE, [k \in {Line_If, Line_Long} |->
                           Json("int", IF k = Line_If THEN v ELSE v + 1)]) :
             v \in {5, 10} }
    \cup { Answer(TRUE, [k \in {Line_If} |-> v]) : v \in AiBadScores }
    \cup { Answer(TRUE, [k \in {Strip(Line_Return)} |-> Json("str", 7)]) }

\* ai_complexity_map.get(line, default)
Get(map, line, default) ==
    IF line \in DOMAIN map THEN map[line] ELSE default

\* ---------------------------------------------------------------- build_flowchart, fallback

PythonIdle == UNCHANGED <<stack, handled>>

\* code.split('\n')
lines == Split(code.text, "\n")

\* ast.parse raises SyntaxError: a fresh RegexFlowchartBuilder starts build(code)
\* with the Start node and the batch scores.
ParseSyntaxError ==
    /\ pc = "call"
    /\ code.parse = "SyntaxError"
    /\ LET r == _add_node(__init__, Text.Start, "start", Score(1))
           start_id == r.id
       IN  /\ SetBuilder(Builder(r))
           /\ prev_id' = start_id
    /\ \E m \in AiMaps : ai_complexity_map' = m
    /\ lineno' = 0
    /\ pc' = "regex"
    /\ UNCHANGED code
    /\ PythonIdle

\* The line the loop of build takes next, stripped.
NextLine == Strip(lines[lineno + 1])

AtLine ==
    /\ pc = "regex"
    /\ lineno < Len(lines)

Skipped(line) == line = <<>> \/ IsComment(line)

\* line_score of build, when ai_complexity_map is a dict.
line_score(line) ==
    Get(ai_complexity_map.items, line,
        Json("int", calculate_complexity_heuristic(line)))

\* The line's branch passes line_score to _add_node and _add_node raises, which
\* it does only on a value found in the dict.
ScoreFails(line) ==
    /\ MatchesIf(line) \/ MatchesLoop(line) \/ ~StartsReturn(line)
    /\ line \in DOMAIN ai_complexity_map.items
    /\ _add_node(B, line, "process", ai_complexity_map.items[line]).raised

\* The line makes build raise: ai_complexity_map has no get (AttributeError,
\* whatever the line's branch), or _add_node raises.
LineFails(line) ==
    \/ ~ai_complexity_map.object
    \/ ScoreFails(line)

\* The common end of the four branches: the edge from prev_id, and prev_id moves.
Chain(r) ==
    /\ SetBuilder(_add_edge(Builder(r), prev_id, r.id, None))
    /\ prev_id' = r.id
    /\ lineno' = lineno + 1
    /\ UNCHANGED <<code, pc, ai_complexity_map>>
    /\ PythonIdle

\* A blank line or a comment: continue.
LineSkip ==
    /\ AtLine
    /\ Skipped(NextLine)
    /\ lineno' = lineno + 1
    /\ UNCHANGED <<code, pc, nodes, edges, node_counter, ai_complexity_map, prev_id>>
    /\ PythonIdle

LineIf ==
    /\ AtLine
    /\ LET line == NextLine
       IN  /\ ~Skipped(line)
           /\ MatchesIf(line)
           /\ ~LineFails(line)
           /\ Chain(_add_node(B, DecisionLabel(line), "decision", line_score(line)))

LineLoop ==
    /\ AtLine
    /\ LET line == NextLine
       IN  /\ ~Skipped(line)
           /\ ~MatchesIf(line)
           /\ MatchesLoop(line)
           /\ ~LineFails(line)
           /\ Chain(_add_node(B, DecisionLabel(line), "decision", line_score(line)))

LineReturn ==
    /\ AtLine
    /\ LET line == NextLine
       IN  /\ ~Skipped(line)
           /\ ~MatchesIf(line)
           /\ ~MatchesLoop(line)
           /\ StartsReturn(line)
           /\ ~LineFails(line)
           /\ Chain(_add_node(B, Remove(line, ";"), "end", Score(1)))

LineOther ==
    /\ AtLine
    /\ LET line == NextLine
       IN  /\ ~Skipped(line)
           /\ ~MatchesIf(line)
           /\ ~MatchesLoop(line)
           /\ ~StartsReturn(line)
           /\ ~LineFails(line)
           /\ Chain(_add_node(B, Remove(Truncate(line), ";"), "process",
                              line_score(line)))

\* A line that is not skipped, when computing its score or creating its node
\* raises: the exception leaves build and build_flowchart. A raising _add_node
\* has taken an id by then.
LineRaises ==
    /\ AtLine
    /\ ~Skipped(NextLine)
    /\ LineFails(NextLine)
    /\ IF ai_complexity_map.object
       THEN SetBuilder(Builder(_add_node(B, NextLine, "process",
                                         line_score(NextLine))))
       ELSE UNCHANGED <<nodes, edges, node_counter>>
    /\ pc' = "raised"
    /\ UNCHANGED <<code, ai_complexity_map, lineno, prev_id>>
    /\ PythonIdle

\* After the last line: the End node, and build_flowchart returns
\* get_flowchart().
BuildEnd ==
    /\ pc = "regex"
    /\ lineno = Len(lines)
    /\ SetBuilder(Builder(_add_node(B, Text.End, "end", Score(1))))
    /\ pc' = "done"
    /\ UNCHANGED <<code, ai_complexity_map, lineno, prev_id>>
    /\ PythonIdle

\* ---------------------------------------------------------------- specification

Input(parse, tree, text) == [parse |-> parse, tree |-> tree, text |-> text]

Inputs ==
    { Input("ok", m, <<>>) : m \in UNION { Modules(n, 1) : n \in 0..MaxStmts } }
    \cup { Input("SyntaxError", <<>>, t) : t \in Texts }
    \cup { Input("RecursionError", <<>>, <<>>) }

Init ==
    /\ code \in Inputs
    /\ pc = "call"
    /\ nodes = __init__.nodes
    /\ edges = __init__.edges
    /\ node_counter = __init__.node_counter
    /\ stack = <<>>
    /\ handled = <<>>
    /\ ai_complexity_map = Answer(TRUE, <<>>)
    /\ lineno = 0
    /\ prev_id = <<>>

Next ==
    \/ ParseOk
    \/ ParseRaises
    \/ ParseSyntaxError
    \/ StmtIf
    \/ StmtIfRaises
    \/ IfTrueDoneElse
    \/ IfTrueDoneNoElse
    \/ IfFalseDone
    \/ StmtLoop
    \/ StmtLoopRaises
    \/ LoopBodyDone
    \/ StmtReturn
    \/ StmtReturnRaises
    \/ StmtOther
    \/ StmtOtherRaises
    \/ ReturnFlowchart
    \/ LineSkip
    \/ LineIf
    \/ LineLoop
    \/ LineReturn
    \/ LineOther
    \/ LineRaises
    \/ BuildEnd

Spec == Init /\ [][Next]_vars

\* ---------------------------------------------------------------- bare builder

\* Any sequence of _add_node and _add_edge calls on a fresh builder. The score
\* of a node is not checked before its id is taken: a call with a score that is
\* no integer raises after the counter went up, and the builder takes further
\* calls after that (build itself makes none: it lets the exception leave
\* build_flowchart). The ends of an edge are not checked: an edge may name the
\* newest id, the id that is taken next, or no node at all.
BuilderInit ==
    /\ code = Input("none", <<>>, <<>>)
    /\ pc = "builder"
    /\ nodes = __init__.nodes
    /\ edges = __init__.edges
    /\ node_counter = __init__.node_counter
    /\ stack = <<>>
    /\ handled = <<>>
    /\ ai_complexity_map = Answer(TRUE, <<>>)
    /\ lineno = 0
    /\ prev_id = <<>>

CallAddNode ==
    /\ pc = "builder"
    /\ node_counter < MaxNodes
    /\ \E score \in {Score(1)} \cup AiBadScores :
         LET r == _add_node(B, Text.End, "process", score)
         IN  /\ r.raised => node_counter - Len(nodes) < MaxRaises
             /\ SetBuilder(Builder(r))
    /\ UNCHANGED <<code, pc, stack, handled, ai_complexity_map, lineno, prev_id>>

CallAddEdge ==
    /\ pc = "builder"
    /\ Len(edges) < MaxEdges
    /\ \E to \in {node_counter, node_counter + 1} :
         SetBuilder(_add_edge(B, node_ \o Str(node_counter),
                              node_ \o Str(to), None))
    /\ UNCHANGED <<code, pc, stack, handled, ai_complexity_map, lineno, prev_id>>

BuilderNext == CallAddNode \/ CallAddEdge

BuilderSpec == BuilderInit /\ [][BuilderNext]_vars

\* ---------------------------------------------------------------- claims

\* build_flowchart has returned get_flowchart().
Returned == pc = "done"

NodeIds == {nodes[i].id : i \in DOMAIN nodes}

\* The edges that end at the node id.
EdgesInto(id) == {j \in DOMAIN edges : edges[j].to_node = id}

StartNodes == {i \in DOMAIN nodes : nodes[i].type = "start"}

\* C1: in every returned Flowchart, of either builder, every node whose type
\* is not start is the to_node of at least one edge.
C1_InDegree ==
    Returned =>
        \A i \in DOMAIN nodes :
            nodes[i].type # "start" => EdgesInto(nodes[i].id) # {}

\* C2: every returned Flowchart has exactly one node of type start, and no edge
\* (the Next edges of loops and the edges into merge nodes included) ends at it.
C2_OneStart ==
    Returned =>
        /\ Cardinality(StartNodes) = 1
        /\ \A i \in StartNodes : EdgesInto(nodes[i].id) = {}

\* A structured Flowchart with a loop's Next edge and an If's merge node.
C2_Witness ==
    /\ Returned
    /\ \E j \in DOMAIN edges : edges[j].label = Text.Next
    /\ \E i \in DOMAIN nodes : nodes[i].type = "merge"
    /\ \A i, j \in DOMAIN nodes : nodes[i].id = nodes[j].id => i = j

\* Every _add_node call made on the builder so far has returned: a call that
\* returns takes one id and appends one node, a call that raises only takes
\* the id.
AllReturned == node_counter = Len(nodes)

\* The number in the id of the i-th node.
IdNumber(i) ==
    CHOOSE k \in 0..node_counter :
        nodes[i].id = <<"n", "o", "d", "e", "_">> \o Str(k)
    /\ Len(edges) = 2
    /\ edges[1].from_node = <<"n", "o", "d", "e", "_", "3">>

\* C4: in every returned Flowchart both ends of every edge are ids of nodes of
\* the Flowchart.
C4_EdgesResolve ==
    Returned =>
        \A j \in DOMAIN edges :
            /\ edges[j].from_node \in NodeIds
            /\ edges[j].to_node \in NodeIds

\* A structured Flowchart of an if/else inside which a Yes edge, two edges into
\* the merge node and a return occur.
C4_Witness ==
    /\ Returned
    /\ code.parse = "ok"
    /\ \E k \in DOMAIN handled : handled[k].kind = "If" /\ handled[k].orelse
    /\ \E i \in DOMAIN nodes : nodes[i].type = "end"
    /\ \A j \in DOMAIN edges : edges[j].to_node \in NodeIds

\* C5: the bucket of every node, of either builder, is fixed by its score alone:
\* low up to 5, medium from 6 to 10, high above 10.
C5_Bucket ==
    \A i \in DOMAIN nodes :
        LET n == nodes[i]
        IN  /\ (n.complexity = "low") <=> (n.complexity_score <= 5)
            /\ (n.complexity = "medium")
                 <=> (6 <= n.complexity_score /\ n.complexity_score <= 10)
            /\ (n.complexity = "high") <=> (n.complexity_score > 10)

\* A Flowchart with a node of score 10 (medium) next to one of score 11 (high)
\* and one of score 1 (low).
C5_Witness ==
    /\ Returned
    /\ \E i \in DOMAIN nodes :
         nodes[i].complexity_score = 10 /\ nodes[i].complexity = "medium"
    /\ \E i \in DOMAIN nodes :
         nodes[i].complexity_score = 11 /\ nodes[i].complexity = "high"
    /\ \E i \in DOMAIN nodes :
         nodes[i].complexity_score = 1 /\ nodes[i].complexity = "low"

\* The node with the id, and its place in nodes.
NodeIndex(id) == CHOOSE i \in DOMAIN nodes : nodes[i].id = id
NodeOf(id) == nodes[NodeIndex(id)]

\* The statement sequence the structured builder is given, read off the input:
\* the body of the first function definition a breadth-first walk of the tree
\* meets if there is one, else the module's statements.
Processed ==
    LET w == walk(code.tree)
        defs == {i \in DOMAIN w : w[i].kind = "FunctionDef"}
    IN  IF defs = {} THEN code.tree
        ELSE w[CHOOSE i \in defs : \A k \in defs : i <= k].body

\* How many nodes of the given kinds the sequence holds, nested ones included.
CountKinds(stmts, kinds) ==
    LET w == walk(stmts)
    IN  Cardinality({i \in DOMAIN w : w[i].kind \in kinds})

\* The statements the loops of process_body take when it is called on the
\* sequence: its statements, those of the body and the orelse of an If among
\* them and those of the body of a For or a While (the else clause of a loop
\* and the inside of any other statement are not walked).
RECURSIVE Visited(_)
Visited(stmts) ==
    IF stmts = <<>> THEN <<>>
    ELSE LET st == Head(stmts)
         IN  <<st>>
             \o (IF st.kind \in {"If", "For", "While"} THEN Visited(st.body)
                 ELSE <<>>)
             \o (IF st.kind = "If" THEN Visited(st.orelse) ELSE <<>>)
             \o Visited(Tail(stmts))

\* How many of the statements process_body takes are of the given kinds.
CountVisited(kinds) ==
    LET v == Visited(Processed)
    IN  Cardinality({i \in DOMAIN v : v[i].kind \in kinds})

\* ast.unparse raises in the branch process_body takes for the statement.
Raising(stmt) ==
    IF stmt.kind \in {"If", "While", "Return"} THEN stmt.deep
    ELSE IF stmt.kind = "For" THEN FALSE
    ELSE UnparseRaises(stmt)

HandledOf(kind) == SelectSeq(handled, LAMBDA h : h.kind = kind)

\* C6: for every If the structured builder processes there is one decision node
\* and one merge node (End If); the merge node has exactly two incoming edges,
\* one from the last node of the true branch, the other from the last node of
\* the false branch (else present, and then no No edge leaves the decision
\* node) or from the decision node labelled No (no else, and that is the only
\* No edge leaving the decision node).
C6_IfShape ==
    (Returned /\ code.parse = "ok") =>
        LET ifs == HandledOf("If")
            nIf == CountVisited({"If"})
        IN  /\ Len(ifs) = nIf
            /\ Cardinality({i \in DOMAIN nodes :
                   nodes[i].type = "decision" /\ StartsWith(nodes[i].label, Text.Is)})
                 = nIf
            /\ Cardinality({i \in DOMAIN nodes : nodes[i].type = "merge"}) = nIf
            /\ \A k, l \in DOMAIN ifs :
                 k # l => ifs[k].head # ifs[l].head /\ ifs[k].exit # ifs[l].exit
            /\ \A k \in DOMAIN ifs :
                 LET h == ifs[k]
                     into == EdgesInto(h.exit)
                     no == {j \in DOMAIN edges :
                              edges[j].from_node = h.head /\ edges[j].label = Text.No}
                 IN  /\ NodeOf(h.head).type = "decision"
                     /\ NodeOf(h.exit).type = "merge"
                     /\ NodeOf(h.exit).label = Text.EndIf
                     /\ Cardinality(into) = 2
                     /\ \E j \in into : edges[j] = Edge(h.last, h.exit, None)
                     /\ IF h.orelse
                        THEN /\ \E j1, j2 \in into :
                                  /\ j1 # j2
                                  /\ edges[j1] = Edge(h.last, h.exit, None)
                                  /\ edges[j2] = Edge(h.last_false, h.exit, None)
                             /\ NodeIndex(h.last) < NodeIndex(h.last_false)
                             /\ NodeIndex(h.last_false) + 1 = NodeIndex(h.exit)
                             /\ no = {}
                        ELSE /\ \E j \in into :
                                  /\ edges[j] = Edge(h.head, h.exit, Text.No)
                                  /\ no = {j}
                             /\ NodeIndex(h.last) + 1 = NodeIndex(h.exit)

\* C7: for every For / While the structured builder processes there are a
\* decision node (the header) and a process node End Loop, a Next edge from the
\* last node of the body to the header, a Done edge from the header to End Loop,
\* and the statement after the loop is chained from End Loop.
C7_LoopShape ==
    (Returned /\ code.parse = "ok") =>
        LET loops == HandledOf("Loop")
        IN  /\ Len(loops) = CountVisited({"For", "While"})
            /\ \A k \in DOMAIN loops :
                 LET h == loops[k]
                 IN  /\ NodeOf(h.head).type = "decision"
                     /\ NodeOf(h.exit).type = "process"
                     /\ NodeOf(h.exit).label = Text.EndLoop
                     /\ NodeIndex(h.last) + 1 = NodeIndex(h.exit)
                     /\ \E j \in DOMAIN edges : edges[j] = Edge(h.last, h.head, Text.Next)
                     /\ \E j \in DOMAIN edges : edges[j] = Edge(h.head, h.exit, Text.Done)
                     /\ h.has_next =>
                          /\ NodeIndex(h.exit) < Len(nodes)
                          /\ \E j \in DOMAIN edges :
                               edges[j] = Edge(h.exit,
                                               nodes[NodeIndex(h.exit) + 1].id, None)

\* A returned Flowchart of a loop that a statement follows.
C7_Witness ==
    /\ Returned
    /\ code.parse = "ok"
    /\ \E k \in DOMAIN handled :
         /\ handled[k].kind = "Loop"
         /\ handled[k].has_next
         /\ \E j \in DOMAIN edges : edges[j].from_node = handled[k].exit

\* The input contains no control-flow construct: no If, For, While or Return
\* anywhere in its tree.
NoControlFlow ==
    CountKinds(code.tree, BranchKinds) = 0

\* process_body takes none of its four branches: no statement it takes is an
\* If, For, While or Return.
NoBranchTaken == CountVisited(BranchKinds) = 0

\* A start node, then n process nodes, no other node, and exactly the n
\* unlabelled edges from each node to the next.
LinearChain(n) ==
    /\ Len(nodes) = n + 1
    /\ nodes[1].type = "start"
    /\ \A i \in 2..(n + 1) : nodes[i].type = "process"
    /\ Len(edges) = n
    /\ \A j \in 1..n : edges[j] = Edge(nodes[j].id, nodes[j + 1].id, None)

\* C8 as stated: for an input that parses and has no control-flow construct the
\* Flowchart is a start node and one process node per statement of the input
\* (counted at the top level, or with the nested ones), chained linearly.
C8_PerInputStatement ==
    (Returned /\ code.parse = "ok" /\ NoControlFlow) =>
        \/ LinearChain(Len(code.tree))
        \/ LinearChain(Len(SelectSeq(walk(code.tree),
                                     LAMBDA n : n.kind # "ExceptHandler")))

\* C8, amended: for an input that parses and of which the builder takes no If,
\* For, While or Return, the Flowchart is a start node and one process node per
\* statement of the sequence the builder is given (the body of the first
\* function definition if the input has one, else the top-level statements),
\* chained linearly.
C8_PerProcessedStatement ==
    (Returned /\ code.parse = "ok" /\ NoBranchTaken) =>
        LinearChain(Len(Processed))

\* A returned Flowchart of an input with a top-level statement before a
\* function definition: only the function's body is charted.
C8_Witness ==
    /\ Returned
    /\ code.parse = "ok"
    /\ NoControlFlow
    /\ Len(code.tree) = 2
    /\ code.tree[2].kind = "FunctionDef"
    /\ Len(nodes) = 2
    /\ nodes[2].type = "process"

\* C9: only a SyntaxError of ast.parse is recovered from: the fallback builder
\* then runs on a fresh builder (it never raises and always has a next step
\* until it returns) and the Flowchart returned goes from a start node to an end
\* node; any other failure of parsing or building is raised, and no Flowchart
\* is returned for an input that has one.
C9_Recovery ==
    /\ pc = "regex" => code.parse = "SyntaxError"
    /\ code.parse = "SyntaxError" =>
         /\ pc \in {"call", "regex", "done"}
         /\ pc = "regex" => lineno <= Len(lines)
    /\ (Returned /\ code.parse = "SyntaxError") =>
         /\ Len(nodes) >= 2
         /\ nodes[1].type = "start"
         /\ nodes[1].id = <<"n", "o", "d", "e", "_", "1">>
         /\ nodes[Len(nodes)].type = "end"
    /\ code.parse = "RecursionError" => pc \in {"call", "raised"}
    /\ pc = "raised" =>
         \/ code.parse = "RecursionError"
         \/ code.parse = "ok" /\ Raising(Cur)
    /\ Returned => code.parse \in {"ok", "SyntaxError"}
    /\ (Returned /\ code.parse = "ok") =>
         LET v == Visited(Processed) IN \A i \in DOMAIN v : ~Raising(v[i])

\* The lines of the input the fallback builder does not skip, stripped.
KeptLines ==
    SelectSeq([i \in DOMAIN lines |-> Strip(lines[i])], LAMBDA l : ~Skipped(l))

\* C10: in the fallback builder the node of every line that is not skipped has
\* as complexity_score the external map's value for the stripped line when the
\* map has it, else the line's heuristic score, whatever the kind of the line.
C10_LineScores ==
    (Returned /\ code.parse = "SyntaxError") =>
        \A k \in DOMAIN KeptLines :
            Json("int", nodes[k + 1].complexity_score)
              = Get(ai_complexity_map.items, KeptLines[k],
                    Json("int", calculate_complexity_heuristic(KeptLines[k])))

\* C11: every node of a Flowchart that build_flowchart returns has a label of at
\* most 30 characters, whichever builder made it and whatever its kind.
C11_LabelLength ==
    Returned => \A i \in DOMAIN nodes : Len(nodes[i].label) <= 30

\* The trimmed lines of the input text that are neither blank nor start with
\* "//", "#", "/*" or "*", in line order.
RealLines ==
    SelectSeq([i \in DOMAIN lines |-> Strip(lines[i])],
              LAMBDA l : /\ l # <<>>
                         /\ ~StartsWith(l, <<"/", "/">>)
                         /\ ~StartsWith(l, <<"#">>)
                         /\ ~StartsWith(l, <<"/", "*">>)
                         /\ ~StartsWith(l, <<"*">>))

\* C12: with k such lines the fallback builder returns k + 2 nodes: Start, one
\* node per line in line order, and a last node End of type end; its edges are
\* exactly the k unlabelled edges node_i -> node_(i+1), 1 <= i <= k.
C12_FallbackChain ==
    (Returned /\ code.parse = "SyntaxError") =>
        LET k == Len(RealLines)
        IN  /\ Len(nodes) = k + 2
            /\ nodes[1].type = "start"
            /\ \A i \in 1..k :
                 /\ nodes[i + 1].type \in {"decision", "end", "process"}
                 /\ nodes[i + 1].label \in
                      {DecisionLabel(RealLines[i]), Remove(RealLines[i], ";"),
                       Remove(Truncate(RealLines[i]), ";")}
            /\ nodes[k + 2].type = "end"
            /\ nodes[k + 2].label = Text.End
            /\ Len(edges) = k
            /\ {edges[j] : j \in DOMAIN edges}
                 = {Edge(node_ \o Str(i), node_ \o Str(i + 1), None) : i \in 1..k}

\* A returned fallback chart of a conditional line followed by a return line,
\* the last real line: Start, a decision node, an end node, End.
C12_Witness ==
    /\ Returned
    /\ code.parse = "SyntaxError"
    /\ Len(RealLines) = 2
    /\ Len(nodes) = 4
    /\ nodes[2].type = "decision"
    /\ nodes[3].type = "end"
    /\ StartsReturn(RealLines[2])
    /\ Len(edges) = 2

\* C13: for every If the structured builder processes, exactly one edge labelled
\* Yes leaves its decision node and it ends at the last node of the true branch
\* (what the call on stmt.body returned); an unlabelled edge runs from the
\* decision node to the first node of the true branch; when the true branch made
\* one node, two edges have that same pair of ends, one unlabelled, one Yes.
C13_YesEdge ==
    (Returned /\ code.parse = "ok") =>
        LET ifs == HandledOf("If")
            yes == {j \in DOMAIN edges : edges[j].label = Text.Yes}
        IN  /\ Len(ifs) = CountVisited({"If"})
            /\ Cardinality(yes) = Len(ifs)
            /\ \A k \in DOMAIN ifs :
                 LET h == ifs[k]
                     first == nodes[NodeIndex(h.head) + 1].id
                     from_head == {j \in yes : edges[j].from_node = h.head}
                 IN  /\ Cardinality(from_head) = 1
                     /\ \A j \in from_head : edges[j].to_node = h.last
                     /\ NodeIndex(h.head) < NodeIndex(h.last)
                     /\ IF h.orelse
                        THEN NodeIndex(h.last) < NodeIndex(h.last_false)
                        ELSE NodeIndex(h.last) + 1 = NodeIndex(h.exit)
                     /\ \E j \in DOMAIN edges : edges[j] = Edge(h.head, first, None)
                     /\ first = h.last =>
                          \E j1, j2 \in DOMAIN edges :
                              /\ j1 # j2
                              /\ edges[j1] = Edge(h.head, h.last, None)
                              /\ edges[j2] = Edge(h.head, h.last, Text.Yes)

\* A returned chart with an If whose true branch made several nodes, the Yes
\* edge ending at the last of them.
C13_Witness ==
    /\ Returned
    /\ code.parse = "ok"
    /\ \E k \in DOMAIN handled :
         /\ handled[k].kind = "If"
         /\ NodeIndex(handled[k].last) > NodeIndex(handled[k].head) + 1
         /\ \E j \in DOMAIN edges :
              edges[j] = Edge(handled[k].head, handled[k].last, Text.Yes)

====
